---- MODULE Spec2Model ----
(***************************************************************************)
(* A model of streamlit_app.py: the Streamlit chat front end of the        *)
(* Cortex Analyst demo.  One browser session is modelled.  A script run    *)
(* (one render cycle) is the sequence of calls made by main(); every call  *)
(* is one action and pc is the position of the run.  Between two runs the  *)
(* session waits for a widget event (pc = "wait").                         *)
(***************************************************************************)
EXTENDS Integers, Sequences, FiniteSets, TLC

(***************************************************************************)
(* Bounds of the model.                                                    *)
(***************************************************************************)
MaxMessages == 4

(***************************************************************************)
(* Program constants.                                                      *)
(***************************************************************************)
API_TIMEOUT == 50000
SUMMARY_ROW_LIMIT == 20

NoneVal == "<None>"
Absent == "<absent>"

Fields == {"account", "user", "token", "warehouse", "database", "schema"}

Placeholder(f) == CASE f = "account" -> "your-account"
                    [] f = "user" -> "your-user"
                    [] f = "token" -> "your-token"
                    [] f = "warehouse" -> "your-warehouse"
                    [] f = "database" -> "your-database"
                    [] f = "schema" -> "your-schema"

AVAILABLE_SEMANTIC_MODELS_PATHS ==
    << "CORTEX_DEMOS.CONTOSO.ANALYST_STAGE/ContosoDemo.yaml",
       "CORTEX_ANALYST_DEMO.REVENUE_TIMESERIES.RAW_DATA/revenue_timeseries.yaml" >>

BOOTSTRAP_QUESTION == "What questions can I ask?"

(***************************************************************************)
(* The process environment of a deployment: the SNOWFLAKE_* environment    *)
(* variables (docker = SNOWFLAKE_ACCOUNT is set), the DEBUG flag and the   *)
(* secrets store.  A missing environment variable reads as "".             *)
(***************************************************************************)
EmptyFields == [f \in Fields |-> ""]

\* the seven snowflake_<field> keys of the session state, none of them set
SessionFields == Fields \cup {"authenticator"}
NotSet == [f \in SessionFields |-> Absent]

RealFields == [f \in Fields |-> "pat"]

Configs ==
    { [docker |-> TRUE,
       env |-> [RealFields EXCEPT !["schema"] = Placeholder("schema")],
       debug |-> FALSE,
       secrets |-> FALSE, secretKeys |-> {}, secretVals |-> EmptyFields],
      [docker |-> FALSE, env |-> EmptyFields, debug |-> TRUE,
       secrets |-> TRUE, secretKeys |-> Fields \ {"warehouse"},
       secretVals |-> RealFields] }

(***************************************************************************)
(* The credential boxes the user retypes in this model (one mandatory      *)
(* field, one optional field) and the values typed into them.              *)
(***************************************************************************)
TypedFields == {"token", "warehouse"}
TypedValues == {"", "pat"}

(***************************************************************************)
(* The connector handle.  exists: CONN is in the session state and is not  *)
(* None; rest: CONN.rest is not None; token: CONN.rest.token (NoneVal for  *)
(* None).                                                                  *)
(***************************************************************************)
NoConn == [exists |-> FALSE, rest |-> FALSE, token |-> NoneVal]
Handle(tok) == [exists |-> TRUE, rest |-> TRUE, token |-> tok]
SESSION_TOKEN == "session-token"

(***************************************************************************)
(* Messages and content items.  The value of an item is a sequence of      *)
(* strings: the fragments of a text, the statement of a sql item (one      *)
(* fragment per token), the list of a suggestions item.                    *)
(***************************************************************************)
Item(t, v) == [type |-> t, val |-> v]
TextItem(text) == Item("text", text)

UserMessage(prompt) ==
    [role |-> "user", content |-> << TextItem(<<prompt>>) >>, request_id |-> Absent]

AnalystMessage(content, rid) ==
    [role |-> "analyst", content |-> content, request_id |-> rid]

WELCOME_TEXT == "Welcome to Snowflake Cortext Analyst for Qlik Cloud! Please connect to Snowflake using the sidebar before asking questions."
WelcomeMessage == AnalystMessage(<< TextItem(<<WELCOME_TEXT>>) >>, "welcome")

Contains(text, s) == \E i \in 1..Len(text) : text[i] = s

VARIABLES
    config,                       \* process environment, fixed for a session
    initialized,                  \* "messages" in st.session_state
    messages,                     \* st.session_state.messages
    active_suggestion,            \* st.session_state.active_suggestion
    just_reset,                   \* st.session_state.just_reset
    fire_API_error_notify,        \* st.session_state["fire_API_error_notify"]
    CONN,                         \* st.session_state.CONN
    session,                      \* st.session_state.session is present
    snowflake,                    \* st.session_state.snowflake_<field>
    input,                        \* st.session_state.<field>_input, or Absent
    selected_semantic_model_path, \* index of the selected model
    cache,                        \* st.cache_data of get_query_exec_result
    pc,                           \* position of the script run
    event,                        \* widget event that triggered the run
    has_connection,               \* local of main()
    raised,                       \* exception that ended the run, or "none"
    lastCall,                     \* history: the analyst call that restarted the run
    calls,                        \* history: display_sql_query calls of the run
    displayed,                    \* history: messages rendered by the last run
    toasts,                       \* history: toasts shown by the last run
    connect_result,               \* history: what the Connect button of the run did
    executions                    \* history: queries run against the warehouse

vars == << config, initialized, messages, active_suggestion, just_reset,
           fire_API_error_notify, CONN, session, snowflake, input,
           selected_semantic_model_path, cache, pc, event, has_connection,
           raised, lastCall, calls, displayed, toasts,
                    connect_result, executions >>

(***************************************************************************)
(* HTTP exchange with the analyst endpoint.  A response is what            *)
(* requests.post produces: an exception (exc), or a status, the            *)
(* X-Snowflake-Request-Id header (Absent if missing) and a body.  json     *)
(* tells whether resp.json() parses the body.  The value under "message"   *)
(* is an object (hasContent: it has the key "content"), a string, a list   *)
(* (hasContent: "content" is an element) or null.                          *)
(***************************************************************************)
JObj(content) == [kind |-> "obj", hasContent |-> TRUE, content |-> content, str |-> ""]
JStr(s) == [kind |-> "str", hasContent |-> FALSE, content |-> << >>, str |-> s]
JList(has) == [kind |-> "list", hasContent |-> has, content |-> << >>, str |-> ""]
JNull == [kind |-> "null", hasContent |-> FALSE, content |-> << >>, str |-> ""]

Body(keys, msg, code, rid) ==
    [keys |-> keys, message |-> msg, error_code |-> code, request_id |-> rid]
EmptyBody == Body({}, JNull, "", "")

HttpResponse(status, hdr, json, body) ==
    [exc |-> "none", status |-> status, hdr |-> hdr, json |-> json, body |-> body]
FailedRequest(exc) ==
    [exc |-> exc, status |-> 0, hdr |-> Absent, json |-> FALSE, body |-> EmptyBody]
NoResponse == FailedRequest("nocall")

SQL_STATEMENT == << "SELECT region, revenue FROM sales", ";" >>
SUGGESTION == "What was the revenue last month?"

OkContents ==
    { << TextItem(<<"This is the answer.">>) >>,
      << Item("sql", SQL_STATEMENT) >>,
      << Item("suggestions", <<SUGGESTION>>) >> }

Responses ==
    { FailedRequest("timeout"), FailedRequest("transport") }
    \cup { HttpResponse(200, "req-1", TRUE, Body({"message"}, JObj(c), "", "")) :
             c \in OkContents }
    \cup { HttpResponse(200, "req-1", TRUE, EmptyBody),
           HttpResponse(200, Absent, TRUE, Body({"message"}, JNull, "", "")),
           HttpResponse(200, "req-1", TRUE, Body({"message"}, JList(TRUE), "", "")),
           HttpResponse(400, "req-1", TRUE,
                        Body({"message", "error_code", "request_id"}, JStr("Y"), "X", "abc")),
           HttpResponse(400, Absent, TRUE,
                        Body({"message", "error_code", "request_id"}, JStr("Y"), "X", "abc")),
           HttpResponse(400, Absent, TRUE, EmptyBody),
           HttpResponse(500, "req-1", FALSE, EmptyBody) }

(***************************************************************************)
(* get_analyst_response, lines 469-617.                                    *)
(***************************************************************************)
\* lines 525-537: the credential put into the Authorization header
TokenToUse(conn, inp, snow) ==
    IF conn.exists /\ conn.rest /\ conn.token # NoneVal
    THEN conn.token
    ELSE IF inp["token"] # Absent THEN inp["token"] ELSE snow["token"]

\* "content" in response_json["message"], for the kinds of JSON value
HasContent(jv) == jv.hasContent

\* parsed_content.get('message', 'No message provided') inside the f-string
MessageStr(body) ==
    IF "message" \in body.keys
    THEN (IF body.message.kind = "str" THEN body.message.str ELSE "<json value>")
    ELSE "No message provided"

ErrorCodeStr(body) ==
    IF "error_code" \in body.keys THEN body.error_code ELSE "N/A"

\* line 555
RequestIdOf(resp) == IF resp.hdr = Absent THEN "unknown" ELSE resp.hdr

Returned(body, rid, err) == [body |-> body, request_id |-> rid, error_msg |-> err]
NoError == << >>

\* variant: the request id is read from the JSON body instead of the header
HttpErrorText_bodyRequestId(resp) ==
    << "An Analyst API error has occurred",
       "response code", ToString(resp.status),
       "request-id", IF "request_id" \in resp.body.keys THEN resp.body.request_id
                     ELSE "unknown",
       "error code", ErrorCodeStr(resp.body),
       "Message", MessageStr(resp.body) >>

HttpErrorText(resp) ==
    << "An Analyst API error has occurred",
       "response code", ToString(resp.status),
       "request-id", RequestIdOf(resp),
       "error code", ErrorCodeStr(resp.body),
       "Message", MessageStr(resp.body) >>

get_analyst_response(resp) ==
    CASE resp.exc = "timeout" ->
           Returned(EmptyBody, "timeout",
                    << "Request timed out after", ToString(API_TIMEOUT \div 1000),
                       "seconds. Please try again." >>)
      [] resp.exc = "transport" ->
           Returned(EmptyBody, "error", << "Request error", "connection failed" >>)
      [] resp.exc = "none" /\ resp.status < 400 ->
           IF "message" \in resp.body.keys /\ resp.body.message.kind = "null"
           THEN \* TypeError of the "in" test, caught at line 609
                Returned(EmptyBody, "error", << "Unexpected error", "TypeError" >>)
           ELSE IF "message" \in resp.body.keys /\ HasContent(resp.body.message)
                THEN Returned(resp.body, RequestIdOf(resp), NoError)
                ELSE Returned(EmptyBody, RequestIdOf(resp),
                              << "Received an invalid response format from the Analyst API." >>)
      [] resp.exc = "none" /\ resp.status >= 400 ->
           IF resp.json
           THEN Returned(EmptyBody, RequestIdOf(resp), HttpErrorText(resp))
           ELSE Returned(EmptyBody, RequestIdOf(resp),
                         << "Failed request", RequestIdOf(resp), "with status",
                            ToString(resp.status), "<raw content>" >>)

(***************************************************************************)
(* process_user_input, lines 411-467: the new conversation, the            *)
(* notification flag and the exception that leaves the function ("none":   *)
(* it ends with st.rerun()).                                               *)
(***************************************************************************)
Processed(msgs, fire, exc) == [messages |-> msgs, fire |-> fire, raised |-> exc]

\* variant: an error of the analyst call raises the flag and adds no message
process_user_input_silentFailure(msgs, fire, prompt, resp) ==
    LET withUser == Append(msgs, UserMessage(prompt))
        r == get_analyst_response(resp)
    IN  IF r.error_msg = NoError /\ "message" \in r.body.keys /\ HasContent(r.body.message)
        THEN IF r.body.message.kind = "obj"
             THEN Processed(Append(withUser,
                                   AnalystMessage(r.body.message.content, r.request_id)),
                            fire, "none")
             ELSE Processed(Append(withUser,
                                   AnalystMessage(<< TextItem(<< "An unexpected error occurred",
                                                                 "TypeError" >>) >>, "error")),
                            TRUE, "none")
        ELSE IF r.error_msg # NoError
        THEN Processed(withUser, TRUE, "none")
        ELSE Processed(Append(withUser,
                              AnalystMessage(
                                  << TextItem(<< "Received an invalid response format from the Analyst API." >>) >>,
                                  r.request_id)),
                       TRUE, "none")

\* variant: the error branch forgets to raise the notification flag
process_user_input_noFlag(msgs, fire, prompt, resp) ==
    LET withUser == Append(msgs, UserMessage(prompt))
        r == get_analyst_response(resp)
    IN  IF r.error_msg = NoError /\ "message" \in r.body.keys /\ HasContent(r.body.message)
        THEN IF r.body.message.kind = "obj"
             THEN Processed(Append(withUser,
                                   AnalystMessage(r.body.message.content, r.request_id)),
                            fire, "none")
             ELSE Processed(Append(withUser,
                                   AnalystMessage(<< TextItem(<< "An unexpected error occurred",
                                                                 "TypeError" >>) >>, "error")),
                            TRUE, "none")
        ELSE Processed(Append(withUser,
                              AnalystMessage(
                                  << TextItem(IF r.error_msg # NoError THEN r.error_msg
                                              ELSE << "Received an invalid response format from the Analyst API." >>) >>,
                                  r.request_id)),
                       fire, "none")

\* variant: without the except clause of line 457
process_user_input_noExcept(msgs, fire, prompt, resp) ==
    LET withUser == Append(msgs, UserMessage(prompt))
        r == get_analyst_response(resp)
    IN  IF r.error_msg = NoError /\ "message" \in r.body.keys /\ HasContent(r.body.message)
        THEN IF r.body.message.kind = "obj"
             THEN Processed(Append(withUser,
                                   AnalystMessage(r.body.message.content, r.request_id)),
                            fire, "none")
             ELSE Processed(withUser, fire, "process_user_input")
        ELSE Processed(Append(withUser,
                              AnalystMessage(
                                  << TextItem(IF r.error_msg # NoError THEN r.error_msg
                                              ELSE << "Received an invalid response format from the Analyst API." >>) >>,
                                  r.request_id)),
                       TRUE, "none")

process_user_input(msgs, fire, prompt, resp) ==
    LET withUser == Append(msgs, UserMessage(prompt))
        r == get_analyst_response(resp)
    IN  IF r.error_msg = NoError /\ "message" \in r.body.keys /\ HasContent(r.body.message)
        THEN IF r.body.message.kind = "obj"
             THEN Processed(Append(withUser,
                                   AnalystMessage(r.body.message.content, r.request_id)),
                            fire, "none")
             ELSE \* response["message"]["content"] raises, caught at line 457
                  Processed(Append(withUser,
                                   AnalystMessage(<< TextItem(<< "An unexpected error occurred",
                                                                 "TypeError" >>) >>, "error")),
                            TRUE, "none")
        ELSE Processed(Append(withUser,
                              AnalystMessage(
                                  << TextItem(IF r.error_msg # NoError THEN r.error_msg
                                              ELSE << "Received an invalid response format from the Analyst API." >>) >>,
                                  r.request_id)),
                       TRUE, "none")

(***************************************************************************)
(* reset_session_state, lines 213-230: the values of the session state     *)
(* keys it writes, given the handle and the query session found there.     *)
(***************************************************************************)
\* variant: the handle and the query session are not restored
reset_session_state_dropsHandle(conn, sess) ==
    [messages |-> << >>, active_suggestion |-> NoneVal, just_reset |-> TRUE,
     CONN |-> NoConn, session |-> FALSE]

reset_session_state(conn, sess) ==
    [messages |-> << >>, active_suggestion |-> NoneVal, just_reset |-> TRUE,
     CONN |-> conn, session |-> sess]

(***************************************************************************)
(* init_connection_params, lines 28-152: the snowflake_<field> values.     *)
(***************************************************************************)
\* lines 29-43: a key missing from the session state gets its default
Defaults(snow) ==
    [f \in DOMAIN snow |->
        IF snow[f] # Absent THEN snow[f]
        ELSE IF f = "authenticator" THEN "snowflake" ELSE ""]

\* variant: the other fields are read from the environment only once the
\* account is set
FromEnvironment_accountFirst(snow, cfg) ==
    [f \in DOMAIN snow |->
        IF f \in Fields /\ cfg.docker /\ snow[f] = ""
           /\ (f = "account" \/ snow["account"] # "")
           /\ cfg.env[f] # "" /\ cfg.env[f] # Placeholder(f)
        THEN cfg.env[f] ELSE snow[f]]

FromEnvironment(snow, cfg) ==
    [f \in DOMAIN snow |->
        IF f \in Fields /\ cfg.docker /\ snow[f] = "" /\ cfg.env[f] # "" /\ cfg.env[f] # Placeholder(f)
        THEN cfg.env[f] ELSE snow[f]]

FromSecrets(snow, cfg) ==
    [f \in DOMAIN snow |->
        IF f \in Fields /\ cfg.debug /\ cfg.secrets /\ snow[f] = "" /\ f \in cfg.secretKeys
        THEN cfg.secretVals[f] ELSE snow[f]]

\* variant: the input boxes only fill what environment and secrets left empty
init_connection_params_environmentFirst(snow, inp, cfg) ==
    LET s == FromSecrets(FromEnvironment(Defaults(snow), cfg), cfg)
    IN  [f \in DOMAIN snow |->
            IF f \in Fields /\ inp[f] # Absent /\ s[f] = "" THEN inp[f] ELSE s[f]]

init_connection_params(snow, inp, cfg) ==
    IF \E f \in Fields : inp[f] # Absent
    THEN [f \in DOMAIN snow |->
            IF f \in Fields /\ inp[f] # Absent THEN inp[f] ELSE Defaults(snow)[f]]
    ELSE FromSecrets(FromEnvironment(Defaults(snow), cfg), cfg)

(***************************************************************************)
(* SQL execution.  A query text is a sequence of tokens.  The warehouse    *)
(* answers a query directly, or fails with the non-finite conversion       *)
(* error (then the COALESCE rewrite is tried), or fails otherwise.         *)
(***************************************************************************)
RowCounts == {0, SUMMARY_ROW_LIMIT, SUMMARY_ROW_LIMIT + 1}

Answer(direct, coerced, rows) == [direct |-> direct, coerced |-> coerced, rows |-> rows]
Answers ==
    { Answer("ok", FALSE, n) : n \in RowCounts }
    \cup { Answer("nonfinite", TRUE, SUMMARY_ROW_LIMIT), Answer("nonfinite", FALSE, 0),
           Answer("error", FALSE, 0) }

Table(rows) == [ok |-> TRUE, rows |-> rows]
QueryError == [ok |-> FALSE, rows |-> 0]

\* lines 784-791
SummaryQuery(sql) ==
    << "SELECT SNOWFLAKE.CORTEX.COMPLETE('mistral-large2', 'Summarize results ...' || (" >>
    \o SelectSeq(sql, LAMBDA t : t # ";")
    \o << ")) as Insights" >>

Queries == { SQL_STATEMENT, SummaryQuery(SQL_STATEMENT) }

\* what the warehouse may answer: the completion call yields one row or fails
Warehouses ==
    { wh \in [Queries -> Answers \cup {Answer("ok", FALSE, 1)}] :
        /\ wh[SQL_STATEMENT] \in Answers
        /\ wh[SummaryQuery(SQL_STATEMENT)] \in {Answer("ok", FALSE, 1), Answer("error", FALSE, 0)} }

\* lines 701-748, the body behind the cache
ExecuteQuery(sess, ans) ==
    IF ~sess THEN QueryError
    ELSE CASE ans.direct = "ok" -> Table(ans.rows)
           [] ans.direct = "nonfinite" -> IF ans.coerced THEN Table(ans.rows) ELSE QueryError
           [] OTHER -> QueryError

\* variant: without the st.cache_data decorator of line 690
get_query_exec_result_noCache(query, sess, cch, wh) ==
    LET res == ExecuteQuery(sess, wh[query])
    IN  [result |-> res, cache |-> cch, executed |-> TRUE]

\* lines 690-691: st.cache_data keyed by the query text
get_query_exec_result(query, sess, cch, wh) ==
    IF query \in DOMAIN cch
    THEN [result |-> cch[query], cache |-> cch, executed |-> FALSE]
    ELSE LET res == ExecuteQuery(sess, wh[query])
         IN  [result |-> res, cache |-> (query :> res) @@ cch, executed |-> TRUE]

(***************************************************************************)
(* display_sql_query, lines 751-802: what it renders (shown), the queries  *)
(* it passes to get_query_exec_result (asked), the result of the primary   *)
(* query, and whether an exception leaves it.                              *)
(***************************************************************************)
Rendering(sql, shown, asked, primary, exc, ran) ==
    [sql |-> sql, shown |-> shown, asked |-> asked, primary |-> primary, raised |-> exc,
     ran |-> ran]

\* the execution behind a call g of get_query_exec_result, if there was one
Ran(query, g) ==
    IF g.executed THEN << [query |-> query, result |-> g.result] >> ELSE << >>

\* variant: without the df.empty test of line 779
display_sql_query_noEmptyCheck(sql, sess, cch, wh) ==
    IF ~sess
    THEN [cache |-> cch,
          call |-> Rendering(sql, {"code", "error: no session"}, << >>, QueryError, FALSE,
                                   << >>)]
    ELSE LET g == get_query_exec_result(sql, sess, cch, wh)
         IN  IF ~g.result.ok
             THEN [cache |-> g.cache,
                   call |-> Rendering(sql, {"code", "error: could not execute"},
                                      <<sql>>, g.result, FALSE,
                                   Ran(sql, g))]
             ELSE IF g.result.rows <= SUMMARY_ROW_LIMIT
             THEN LET sq == SummaryQuery(sql)
                      g2 == get_query_exec_result(sq, sess, g.cache, wh)
                  IN  IF ~g2.result.ok \/ g2.result.rows = 0
                      THEN [cache |-> g2.cache,
                            call |-> Rendering(sql, {"code"}, <<sql, sq>>, g.result, TRUE,
                                   Ran(sql, g) \o Ran(sq, g2))]
                      ELSE [cache |-> g2.cache,
                            call |-> Rendering(sql, {"code", "summary", "data tab", "chart tab"},
                                               <<sql, sq>>, g.result, FALSE,
                                   Ran(sql, g) \o Ran(sq, g2))]
             ELSE [cache |-> g.cache,
                   call |-> Rendering(sql, {"code", "data tab", "chart tab"},
                                      <<sql>>, g.result, FALSE,
                                   Ran(sql, g))]

display_sql_query(sql, sess, cch, wh) ==
    IF ~sess
    THEN [cache |-> cch,
          call |-> Rendering(sql, {"code", "error: no session"}, << >>, QueryError, FALSE,
                                   << >>)]
    ELSE LET g == get_query_exec_result(sql, sess, cch, wh)
         IN  IF ~g.result.ok
             THEN [cache |-> g.cache,
                   call |-> Rendering(sql, {"code", "error: could not execute"},
                                      <<sql>>, g.result, FALSE,
                                   Ran(sql, g))]
             ELSE IF g.result.rows = 0
             THEN [cache |-> g.cache,
                   call |-> Rendering(sql, {"code", "Query returned no data"},
                                      <<sql>>, g.result, FALSE,
                                   Ran(sql, g))]
             ELSE IF g.result.rows <= SUMMARY_ROW_LIMIT
             THEN LET sq == SummaryQuery(sql)
                      g2 == get_query_exec_result(sq, sess, g.cache, wh)
                  IN  IF ~g2.result.ok \/ g2.result.rows = 0
                      THEN \* DataSummary[0].iat[0, 0] raises at line 794
                           [cache |-> g2.cache,
                            call |-> Rendering(sql, {"code"}, <<sql, sq>>, g.result, TRUE,
                                   Ran(sql, g) \o Ran(sq, g2))]
                      ELSE [cache |-> g2.cache,
                            call |-> Rendering(sql, {"code", "summary", "data tab", "chart tab"},
                                               <<sql, sq>>, g.result, FALSE,
                                   Ran(sql, g) \o Ran(sq, g2))]
             ELSE [cache |-> g.cache,
                   call |-> Rendering(sql, {"code", "data tab", "chart tab"},
                                      <<sql>>, g.result, FALSE,
                                   Ran(sql, g))]

(***************************************************************************)
(* display_message and display_conversation, lines 619-688.  st carries    *)
(* the cache, the display_sql_query calls made so far, the pending         *)
(* suggestion, the number of messages rendered and whether an exception    *)
(* has ended the rendering.  click is the index of the message whose       *)
(* suggestion button was pressed (0: none).                                *)
(***************************************************************************)
RECURSIVE display_message(_, _, _, _, _, _)
display_message(content, k, clicked, sess, wh, st) ==
    IF k > Len(content) \/ st.raised THEN st
    ELSE LET item == content[k]
             next ==
               CASE item.type = "suggestions" ->
                      IF clicked THEN [st EXCEPT !.sugg = item.val[1]] ELSE st
                 [] item.type = "sql" ->
                      LET d == display_sql_query(item.val, sess, st.cache, wh)
                      IN  [st EXCEPT !.cache = d.cache,
                                     !.calls = Append(st.calls, d.call),
                                     !.raised = d.call.raised]
                 [] OTHER -> st
         IN  display_message(content, k + 1, clicked, sess, wh, next)

RECURSIVE display_conversation(_, _, _, _, _, _)
display_conversation(msgs, idx, click, sess, wh, st) ==
    IF idx > Len(msgs) \/ st.raised THEN st
    ELSE LET after == display_message(msgs[idx].content, 1, click = idx, sess, wh, st)
         IN  display_conversation(msgs, idx + 1, click, sess, wh,
                                  IF after.raised THEN after
                                  ELSE [after EXCEPT !.shown = idx])

(***************************************************************************)
(* The session.                                                            *)
(***************************************************************************)
TYPED_QUESTION == "How is revenue doing?"

Event(kind, idx) == [kind |-> kind, idx |-> idx]
NoEvent == Event("none", 0)

\* line 177-184
HasConnection(conn) == conn.exists /\ conn.rest /\ conn.token # NoneVal

\* the analyst call failed: no message with content came back
Fails(resp) ==
    \/ resp.exc # "none"
    \/ resp.status >= 400
    \/ ~resp.json
    \/ "message" \notin resp.body.keys
    \/ resp.body.message.kind # "obj"
    \/ ~resp.body.message.hasContent

NoCall == [resp |-> NoResponse, auth |-> "", connected |-> FALSE]

Init ==
    /\ config \in Configs
    /\ initialized = FALSE
    /\ messages = << >>
    /\ active_suggestion = NoneVal
    /\ just_reset = FALSE
    /\ fire_API_error_notify = FALSE
    /\ CONN = NoConn
    /\ session = FALSE
    /\ snowflake = NotSet
    /\ input = [f \in Fields |-> Absent]
    /\ selected_semantic_model_path = 1
    /\ cache = << >>
    /\ pc = "init"
    /\ event = Event("load", 0)
    /\ has_connection = FALSE
    /\ raised = "none"
    /\ lastCall = NoCall
    /\ calls = << >>
    /\ displayed = 0
    /\ toasts = 0
    /\ connect_result = "none"
    /\ executions = << >>

\* a widget event starts a script run
StartRun(ev) ==
    /\ pc' = "init"
    /\ event' = ev

\* process_user_input called by the running script with the analyst's answer
Submit(msgs, prompt, resp) ==
    LET p == process_user_input(msgs, fire_API_error_notify, prompt, resp)
    IN  /\ Len(msgs) + 2 <= MaxMessages
        /\ messages' = p.messages
        /\ fire_API_error_notify' = p.fire
        /\ lastCall' = [resp |-> resp, auth |-> TokenToUse(CONN, input, snowflake),
                        connected |-> HasConnection(CONN)]
        /\ raised' = p.raised
        /\ IF p.raised = "none"
           THEN StartRun(Event("rerun", 0))
           ELSE pc' = "wait" /\ event' = NoEvent

(***************************************************************************)
(* Widget events between two runs.                                         *)
(***************************************************************************)
\* text_input on_change callbacks update_<field>, lines 272-303
EditField ==
    /\ pc = "wait"
    /\ ~config.debug
    /\ \E f \in TypedFields, v \in TypedValues :
         /\ input[f] # Absent
         /\ input[f] # v
         /\ input' = [input EXCEPT ![f] = v]
         /\ snowflake' = [snowflake EXCEPT ![f] = v]
    /\ StartRun(Event("edit", 0))
    /\ UNCHANGED << config, initialized, messages, active_suggestion, just_reset,
                    fire_API_error_notify, CONN, session, selected_semantic_model_path,
                    cache, has_connection, raised, lastCall, calls,
                    displayed, toasts,
                    connect_result, executions >>

\* st.button("Connect to Snowflake"), line 307
ClickConnect ==
    /\ pc = "wait"
    /\ StartRun(Event("connect", 0))
    /\ UNCHANGED << config, initialized, messages, active_suggestion, just_reset,
                    fire_API_error_notify, CONN, session, snowflake, input,
                    selected_semantic_model_path, cache, has_connection, raised, lastCall, calls, displayed, toasts,
                    connect_result, executions >>

\* st.button("Clear Chat History"), line 385
ClickClear ==
    /\ pc = "wait"
    /\ StartRun(Event("clear", 0))
    /\ UNCHANGED << config, initialized, messages, active_suggestion, just_reset,
                    fire_API_error_notify, CONN, session, snowflake, input,
                    selected_semantic_model_path, cache, has_connection, raised, lastCall, calls, displayed, toasts,
                    connect_result, executions >>

\* variant: the selectbox without its on_change callback
ChangeModel_noReset ==
    /\ pc = "wait"
    /\ \E m \in 1..Len(AVAILABLE_SEMANTIC_MODELS_PATHS) :
         /\ m # selected_semantic_model_path
         /\ selected_semantic_model_path' = m
    /\ StartRun(Event("model", 0))
    /\ UNCHANGED << config, initialized, messages, active_suggestion, just_reset,
                    fire_API_error_notify, CONN, session, snowflake, input, cache,
                    has_connection, raised, lastCall, calls, displayed, toasts,
                    connect_result, executions >>

\* st.selectbox(..., on_change=reset_session_state), lines 377-382
ChangeModel ==
    /\ pc = "wait"
    /\ \E m \in 1..Len(AVAILABLE_SEMANTIC_MODELS_PATHS) :
         /\ m # selected_semantic_model_path
         /\ selected_semantic_model_path' = m
    /\ LET r == reset_session_state(CONN, session)
       IN  /\ messages' = r.messages
           /\ active_suggestion' = r.active_suggestion
           /\ just_reset' = r.just_reset
           /\ CONN' = r.CONN
           /\ session' = r.session
    /\ StartRun(Event("model", 0))
    /\ UNCHANGED << config, initialized, fire_API_error_notify, snowflake, input, cache,
                    has_connection, raised, lastCall, calls, displayed,
                    toasts,
                    connect_result, executions >>

\* st.chat_input, line 395; the box exists if the last run got that far
SubmitChat ==
    /\ pc = "wait"
    /\ raised = "none"
    /\ Len(messages) + 2 <= MaxMessages
    /\ StartRun(Event("chat", 0))
    /\ UNCHANGED << config, initialized, messages, active_suggestion, just_reset,
                    fire_API_error_notify, CONN, session, snowflake, input,
                    selected_semantic_model_path, cache, has_connection, raised, lastCall, calls, displayed, toasts,
                    connect_result, executions >>

\* a suggestion button rendered by the last run, lines 663-667
ClickSuggestion ==
    /\ pc = "wait"
    /\ Len(messages) + 2 <= MaxMessages
    /\ \E i \in 1..displayed :
         /\ i <= Len(messages)
         /\ \E k \in 1..Len(messages[i].content) : messages[i].content[k].type = "suggestions"
         /\ StartRun(Event("suggest", i))
    /\ UNCHANGED << config, initialized, messages, active_suggestion, just_reset,
                    fire_API_error_notify, CONN, session, snowflake, input,
                    selected_semantic_model_path, cache, has_connection, raised, lastCall, calls, displayed, toasts,
                    connect_result, executions >>

(***************************************************************************)
(* The script run: main(), lines 166-209, one action per call.             *)
(***************************************************************************)
\* lines 233-387; snow is the result of init_connection_params
ConnectOutcomes == {"ok", "connect failed", "session failed"}

\* variant: without the test of the user, lines 334-335
show_header_and_sidebar_noUserCheck(snow, msgs, sugg, flag, conn, sess, outcome) ==
    LET registered == [f \in Fields |-> IF input[f] = Absent THEN snow[f] ELSE input[f]]
        r == reset_session_state(conn, sess)
    IN  /\ input' = registered
        /\ connect_result' =
             IF event.kind # "connect" THEN "none"
             ELSE IF registered["token"] = "" THEN "error: token"
             ELSE IF registered["account"] = "" THEN "error: account"
             ELSE outcome
        /\ IF event.kind = "connect"
           THEN /\ snowflake' = [f \in DOMAIN snow |->
                                   IF f \in Fields THEN registered[f] ELSE snow[f]]
                /\ IF registered["token"] = "" \/ registered["account"] = ""
                   THEN CONN' = conn /\ session' = sess
                   ELSE CASE outcome = "ok" ->
                               CONN' = Handle(SESSION_TOKEN) /\ session' = TRUE
                          [] outcome = "session failed" ->
                               CONN' = Handle(SESSION_TOKEN) /\ session' = sess
                          [] OTHER -> CONN' = conn /\ session' = sess
                /\ messages' = msgs
                /\ active_suggestion' = sugg
                /\ just_reset' = flag
           ELSE IF event.kind = "clear"
           THEN /\ messages' = r.messages
                /\ active_suggestion' = r.active_suggestion
                /\ just_reset' = r.just_reset
                /\ CONN' = r.CONN
                /\ session' = r.session
                /\ snowflake' = snow
           ELSE /\ snowflake' = snow
                /\ messages' = msgs
                /\ active_suggestion' = sugg
                /\ just_reset' = flag
                /\ CONN' = conn
                /\ session' = sess

show_header_and_sidebar(snow, msgs, sugg, flag, conn, sess, outcome) ==
    LET registered == [f \in Fields |-> IF input[f] = Absent THEN snow[f] ELSE input[f]]
        r == reset_session_state(conn, sess)
    IN  /\ input' = registered
        /\ connect_result' =
             IF event.kind # "connect" THEN "none"
             ELSE IF registered["token"] = "" THEN "error: token"
             ELSE IF registered["account"] = "" THEN "error: account"
             ELSE IF registered["user"] = "" THEN "error: user"
             ELSE outcome
        /\ IF event.kind = "connect"
           THEN /\ snowflake' = [f \in DOMAIN snow |->
                                   IF f \in Fields THEN registered[f] ELSE snow[f]]
                /\ IF registered["token"] = "" \/ registered["account"] = ""
                      \/ registered["user"] = ""
                   THEN CONN' = conn /\ session' = sess
                   ELSE CASE outcome = "ok" ->
                               CONN' = Handle(SESSION_TOKEN) /\ session' = TRUE
                          [] outcome = "session failed" ->
                               CONN' = Handle(SESSION_TOKEN) /\ session' = sess
                          [] OTHER -> CONN' = conn /\ session' = sess
                /\ messages' = msgs
                /\ active_suggestion' = sugg
                /\ just_reset' = flag
           ELSE IF event.kind = "clear"
           THEN /\ messages' = r.messages
                /\ active_suggestion' = r.active_suggestion
                /\ just_reset' = r.just_reset
                /\ CONN' = r.CONN
                /\ session' = r.session
                /\ snowflake' = snow
           ELSE /\ snowflake' = snow
                /\ messages' = msgs
                /\ active_suggestion' = sugg
                /\ just_reset' = flag
                /\ CONN' = conn
                /\ session' = sess

\* lines 171-175: the first reset, init_connection_params, show_header_and_sidebar
MainStart ==
    /\ pc = "init"
    /\ LET r == reset_session_state(CONN, session)
           first == ~initialized
           snow == init_connection_params(snowflake, input, config)
       IN  \E outcome \in ConnectOutcomes :
             show_header_and_sidebar(snow,
                 IF first THEN r.messages ELSE messages,
                 IF first THEN r.active_suggestion ELSE active_suggestion,
                 IF first THEN r.just_reset ELSE just_reset,
                 IF first THEN r.CONN ELSE CONN,
                 IF first THEN r.session ELSE session,
                 outcome)
    /\ initialized' = TRUE
    /\ has_connection' = FALSE
    /\ raised' = "none"
    /\ calls' = << >>
    /\ toasts' = 0
    /\ pc' = "first"
    /\ UNCHANGED << config, fire_API_error_notify, selected_semantic_model_path, cache,
                    event, lastCall, displayed, executions >>

\* variant: the welcome message is added whenever there is no connection
MainFirstQuestion_welcomeAlways ==
    /\ pc = "first"
    /\ has_connection' = HasConnection(CONN)
    /\ IF Len(messages) = 0 /\ HasConnection(CONN) /\ ~just_reset
       THEN /\ \E resp \in Responses : Submit(messages, BOOTSTRAP_QUESTION, resp)
            /\ UNCHANGED just_reset
       ELSE /\ IF ~HasConnection(CONN)
               THEN /\ just_reset' = FALSE
                    /\ messages' = Append(messages, WelcomeMessage)
               ELSE UNCHANGED << just_reset, messages >>
            /\ pc' = "display"
            /\ UNCHANGED << fire_API_error_notify, event, raised, lastCall >>
    /\ UNCHANGED << config, initialized, active_suggestion, CONN, session, snowflake, input,
                    selected_semantic_model_path, cache, calls, displayed, toasts,
                    connect_result, executions >>

\* lines 176-205
MainFirstQuestion ==
    /\ pc = "first"
    /\ has_connection' = HasConnection(CONN)
    /\ IF Len(messages) = 0 /\ HasConnection(CONN) /\ ~just_reset
       THEN /\ \E resp \in Responses : Submit(messages, BOOTSTRAP_QUESTION, resp)
            /\ UNCHANGED just_reset
       ELSE /\ IF Len(messages) = 0 /\ ~HasConnection(CONN)
               THEN /\ just_reset' = FALSE
                    /\ messages' = Append(messages, WelcomeMessage)
               ELSE UNCHANGED << just_reset, messages >>
            /\ pc' = "display"
            /\ UNCHANGED << fire_API_error_notify, event, raised, lastCall >>
    /\ UNCHANGED << config, initialized, active_suggestion, CONN, session, snowflake, input,
                    selected_semantic_model_path, cache, calls, displayed, toasts,
                    connect_result, executions >>

\* the executions of the display_sql_query calls of a run, in order
RECURSIVE AllRan(_, _)
AllRan(cs, i) == IF i > Len(cs) THEN << >> ELSE cs[i].ran \o AllRan(cs, i + 1)

\* line 207
DisplayConversation ==
    /\ pc = "display"
    /\ \E wh \in Warehouses :
         LET click == IF event.kind = "suggest" THEN event.idx ELSE 0
             start == [cache |-> cache, calls |-> << >>, sugg |-> active_suggestion,
                       shown |-> 0, raised |-> FALSE]
             d == display_conversation(messages, 1, click, session, wh, start)
         IN  /\ cache' = d.cache
             /\ calls' = d.calls
             /\ active_suggestion' = d.sugg
             /\ displayed' = d.shown
             /\ raised' = IF d.raised THEN "display_sql_query" ELSE "none"
             /\ pc' = IF d.raised THEN "wait" ELSE "inputs"
             /\ event' = IF d.raised THEN NoEvent ELSE event
             /\ lastCall' = IF d.raised THEN NoCall ELSE lastCall
             /\ connect_result' = IF d.raised THEN "none" ELSE connect_result
             /\ executions' = executions \o AllRan(d.calls, 1)
    /\ UNCHANGED << config, initialized, messages, just_reset, fire_API_error_notify, CONN,
                    session, snowflake, input, selected_semantic_model_path,
                    has_connection, toasts >>

\* variant: the typed question takes the place of the last message
HandleUserInputs_overLast ==
    /\ pc = "inputs"
    /\ IF event.kind = "chat"
       THEN /\ \E resp \in Responses : Submit(SubSeq(messages, 1, Len(messages) - 1),
                                               TYPED_QUESTION, resp)
            /\ UNCHANGED active_suggestion
       ELSE IF active_suggestion # NoneVal
       THEN /\ active_suggestion' = NoneVal
            /\ \E resp \in Responses : Submit(messages, active_suggestion, resp)
       ELSE /\ pc' = "notify"
            /\ UNCHANGED << active_suggestion, messages, fire_API_error_notify, event,
                            raised, lastCall >>
    /\ UNCHANGED << config, initialized, just_reset, CONN, session, snowflake, input,
                    selected_semantic_model_path, cache, has_connection, calls,
                    displayed, toasts,
                    connect_result, executions >>

\* lines 390-403
HandleUserInputs ==
    /\ pc = "inputs"
    /\ IF event.kind = "chat"
       THEN /\ \E resp \in Responses : Submit(messages, TYPED_QUESTION, resp)
            /\ UNCHANGED active_suggestion
       ELSE IF active_suggestion # NoneVal
       THEN /\ active_suggestion' = NoneVal
            /\ \E resp \in Responses : Submit(messages, active_suggestion, resp)
       ELSE /\ pc' = "notify"
            /\ UNCHANGED << active_suggestion, messages, fire_API_error_notify, event,
                            raised, lastCall >>
    /\ UNCHANGED << config, initialized, just_reset, CONN, session, snowflake, input,
                    selected_semantic_model_path, cache, has_connection, calls,
                    displayed, toasts,
                    connect_result, executions >>

\* variant: the flag is not cleared after the toast, line 409
HandleErrorNotifications_keepsFlag ==
    /\ pc = "notify"
    /\ IF fire_API_error_notify
       THEN toasts' = toasts + 1 /\ fire_API_error_notify' = fire_API_error_notify
       ELSE UNCHANGED << toasts, fire_API_error_notify >>
    /\ pc' = "wait"
    /\ event' = NoEvent
    /\ lastCall' = NoCall
    /\ connect_result' = "none"
    /\ UNCHANGED << config, initialized, messages, active_suggestion, just_reset, CONN,
                    session, snowflake, input, selected_semantic_model_path, cache,
                    has_connection, raised, calls, displayed, executions >>

\* lines 405-409
HandleErrorNotifications ==
    /\ pc = "notify"
    /\ IF fire_API_error_notify
       THEN toasts' = toasts + 1 /\ fire_API_error_notify' = FALSE
       ELSE UNCHANGED << toasts, fire_API_error_notify >>
    /\ pc' = "wait"
    /\ event' = NoEvent
    /\ lastCall' = NoCall
    /\ connect_result' = "none"
    /\ UNCHANGED << config, initialized, messages, active_suggestion, just_reset, CONN,
                    session, snowflake, input, selected_semantic_model_path, cache,
                    has_connection, raised, calls, displayed, executions >>

Next ==
    \/ EditField
    \/ ClickConnect
    \/ ClickClear
    \/ ChangeModel
    \/ SubmitChat
    \/ ClickSuggestion
    \/ MainStart
    \/ MainFirstQuestion
    \/ DisplayConversation
    \/ HandleUserInputs
    \/ HandleErrorNotifications

Spec == Init /\ [][Next]_vars

TypeOK ==
    /\ Len(messages) <= MaxMessages
    /\ pc \in {"wait", "init", "first", "display", "inputs", "notify"}
    /\ raised \in {"none", "display_sql_query", "process_user_input"}

(***************************************************************************)
(* Further specifications.                                                 *)
(***************************************************************************)
\* a session in which the user neither clears the chat nor changes the model
\* (within MaxMessages such a conversation has no room for a suggestion click)
NextNoReset ==
    \/ EditField
    \/ ClickConnect
    \/ SubmitChat
    \/ MainStart
    \/ MainFirstQuestion
    \/ DisplayConversation
    \/ HandleUserInputs
    \/ HandleErrorNotifications

SpecNoReset == Init /\ [][NextNoReset]_vars

\* the connected check of main applied to every shape of handle: a script
\* run that has reached line 176 with some handle in the session state
HandleShapes ==
    { NoConn,
      [exists |-> TRUE, rest |-> FALSE, token |-> NoneVal],
      [exists |-> TRUE, rest |-> TRUE, token |-> NoneVal],
      Handle(""),
      Handle(SESSION_TOKEN) }

InitHandle ==
    /\ config \in Configs
    /\ initialized = TRUE
    /\ \/ messages = << >> /\ just_reset = TRUE
       \/ messages = << WelcomeMessage >> /\ just_reset = FALSE
    /\ active_suggestion = NoneVal
    /\ fire_API_error_notify = FALSE
    /\ CONN \in HandleShapes
    /\ session \in BOOLEAN
    /\ snowflake = init_connection_params(NotSet, [f \in Fields |-> Absent], config)
    /\ input = [f \in Fields |-> snowflake[f]]
    /\ selected_semantic_model_path = 1
    /\ cache = << >>
    /\ pc = "first"
    /\ event \in {Event("edit", 0), Event("chat", 0)}
    /\ has_connection = FALSE
    /\ raised = "none"
    /\ lastCall = NoCall
    /\ calls = << >>
    /\ displayed = 0
    /\ toasts = 0
    /\ connect_result = "none"
    /\ executions = << >>

NextHandle ==
    \/ MainStart
    \/ MainFirstQuestion
    \/ DisplayConversation
    \/ HandleUserInputs
    \/ HandleErrorNotifications

SpecHandle == InitHandle /\ [][NextHandle]_vars

\* credential resolution over a range of deployments: the environment
\* variables of ResolveFields are unset, a placeholder or a real value
\* (an unset SNOWFLAKE_ACCOUNT means no docker deployment, line 94), the
\* DEBUG flag is on or off, the secrets store is missing or holds any
\* subset of the keys of ResolveFields
ResolveFields == {"account", "user", "token"}

ResolveEnvironments ==
    { e \in [Fields -> {"", "env"} \cup {Placeholder(f) : f \in Fields}] :
        \A f \in Fields :
            /\ f \notin ResolveFields => e[f] = ""
            /\ e[f] \in {"", "env", Placeholder(f)} }

ResolveConfigs ==
    { [docker |-> d, env |-> e, debug |-> g,
       secrets |-> k # {}, secretKeys |-> k, secretVals |-> [f \in Fields |-> "secret"]] :
        d \in BOOLEAN, e \in ResolveEnvironments, g \in BOOLEAN,
        k \in SUBSET ResolveFields }

InitResolve ==
    /\ config \in { c \in ResolveConfigs : ~c.docker => c.env = EmptyFields }
    /\ initialized = FALSE
    /\ messages = << >>
    /\ active_suggestion = NoneVal
    /\ just_reset = FALSE
    /\ fire_API_error_notify = FALSE
    /\ CONN = NoConn
    /\ session = FALSE
    /\ snowflake = NotSet
    /\ input = [f \in Fields |-> Absent]
    /\ selected_semantic_model_path = 1
    /\ cache = << >>
    /\ pc = "init"
    /\ event = Event("load", 0)
    /\ has_connection = FALSE
    /\ raised = "none"
    /\ lastCall = NoCall
    /\ calls = << >>
    /\ displayed = 0
    /\ toasts = 0
    /\ connect_result = "none"
    /\ executions = << >>

\* the runs and the sidebar events that touch the credentials
NextResolve ==
    \/ EditField
    \/ ClickConnect
    \/ MainStart
    \/ MainFirstQuestion
    \/ DisplayConversation
    \/ HandleUserInputs
    \/ HandleErrorNotifications

SpecResolve == InitResolve /\ [][NextResolve]_vars

(***************************************************************************)
(* Vocabulary of the properties.                                           *)
(***************************************************************************)
Last(seq) == seq[Len(seq)]

ErrorHeads ==
    { "Request timed out after", "Request error", "Unexpected error",
      "Received an invalid response format from the Analyst API.",
      "An Analyst API error has occurred", "Failed request",
      "An unexpected error occurred" }

IsErrorMessage(m) ==
    /\ m.role = "analyst"
    /\ Len(m.content) = 1
    /\ m.content[1].type = "text"
    /\ m.content[1].val[1] \in ErrorHeads

\* the step of a run in which process_user_input is called
SubmitStep == pc \in {"first", "inputs"} /\ pc' \notin {"display", "notify"}

\* the run restarted by process_user_input has just begun
AfterSubmit == pc = "init" /\ event.kind = "rerun" /\ lastCall.resp # NoResponse

\* the message of lines 197-204
IsWelcome(m) == m.role = "analyst" /\ m.request_id = "welcome"

\* the questions process_user_input is called with, lines 191, 397, 402
Prompts == {TYPED_QUESTION, SUGGESTION, BOOTSTRAP_QUESTION}

BootstrapAsked ==
    \E i \in 1..Len(messages) : messages[i] = UserMessage(BOOTSTRAP_QUESTION)

(***************************************************************************)
(* Properties.                                                             *)
(***************************************************************************)

\* C1: the just_reset flag set by a reset is cleared by the end of the next
\* run of main: a run that performs no reset itself (it is not the first
\* load, not the run of the Clear button and not the run after a model
\* change) has just_reset = FALSE once it is past the first-question step.
C1_FlagClearedByNextRun ==
    (pc \in {"display", "inputs", "notify"} /\ event.kind \notin {"load", "clear", "model"})
        => ~just_reset

\* C2: without a reset or a model change, once a run of main has seen an
\* active connection the bootstrap question has been submitted.
C2_BootstrapOnFirstConnection ==
    has_connection => BootstrapAsked

\* C3: every step that calls reset_session_state leaves the conversation
\* empty and the suggestion cleared, and keeps CONN and the query session.
C3_ResetStep ==
    \/ pc = "wait" /\ event'.kind = "model"
    \/ pc = "init" /\ event.kind = "clear"
    \/ pc = "init" /\ ~initialized

C3_ResetKeepsHandle ==
    [][C3_ResetStep =>
          /\ messages' = << >>
          /\ active_suggestion' = NoneVal
          /\ CONN' = CONN
          /\ session' = session
          /\ (CONN.exists => CONN'.exists)]_vars

C3_Witness ==
    /\ pc = "first"
    /\ event.kind = "clear"
    /\ CONN = Handle(SESSION_TOKEN)
    /\ session
    /\ messages = << >>

\* C4: a failed analyst call adds the user message and exactly one analyst
\* error message and sets fire_API_error_notify; a successful call adds the
\* user message and the analyst's content and leaves the flag as it was.
C4_ErrorMessageAndFlag ==
    [][SubmitStep =>
          LET n == Len(messages)
              resp == lastCall'.resp
          IN  /\ Len(messages') = n + 2
              /\ SubSeq(messages', 1, n) = messages
              /\ messages'[n + 1].role = "user"
              /\ messages'[n + 2].role = "analyst"
              /\ Fails(resp) =>
                    IsErrorMessage(messages'[n + 2]) /\ fire_API_error_notify'
              /\ ~Fails(resp) =>
                    /\ ~IsErrorMessage(messages'[n + 2])
                    /\ messages'[n + 2].content = resp.body.message.content
                    /\ fire_API_error_notify' = fire_API_error_notify]_vars

C4_Witness ==
    /\ AfterSubmit
    /\ lastCall.resp = HttpResponse(200, "req-1", TRUE, EmptyBody)
    /\ IsErrorMessage(Last(messages))
    /\ messages[Len(messages) - 1].role = "user"
    /\ fire_API_error_notify

\* C5: no exception leaves process_user_input, a run never stops with a user
\* message last, and a submission made when the conversation ends with an
\* error message is taken like any other: user message appended, analyst
\* message appended, run restarted.
C5_FailureKeepsConversationUsable ==
    /\ [](raised # "process_user_input")
    /\ []((pc = "wait" /\ Len(messages) > 0) => Last(messages).role = "analyst")
    /\ [][(SubmitStep /\ Len(messages) > 0 /\ IsErrorMessage(Last(messages))) =>
             /\ Len(messages') = Len(messages) + 2
             /\ messages'[Len(messages) + 1].role = "user"
             /\ messages'[Len(messages) + 2].role = "analyst"
             /\ raised' = "none"
             /\ pc' = "init"]_vars

C5_Witness ==
    /\ AfterSubmit
    /\ Len(messages) >= 4
    /\ IsErrorMessage(messages[Len(messages) - 2])
    /\ ~Fails(lastCall.resp)

\* C6 as stated: for a status >= 400 response whose JSON body carries
\* error_code X, message Y and request_id abc, the error text appended to
\* the conversation contains X, Y and abc.
C6_ErrorBody(resp) ==
    /\ resp.exc = "none"
    /\ resp.status >= 400
    /\ resp.json
    /\ resp.body.keys = {"message", "error_code", "request_id"}
    /\ resp.body.message = JStr("Y")
    /\ resp.body.error_code = "X"
    /\ resp.body.request_id = "abc"

C6_TextHasBodyRequestId ==
    (AfterSubmit /\ C6_ErrorBody(lastCall.resp)) =>
        LET text == Last(messages).content[1].val
        IN  Contains(text, "X") /\ Contains(text, "Y") /\ Contains(text, "abc")

\* C6 amended: the text contains X, Y and the request id of the
\* X-Snowflake-Request-Id header ("unknown" without the header); the
\* request_id of the body is not used.
C6_TextHasHeaderRequestId ==
    (AfterSubmit /\ C6_ErrorBody(lastCall.resp)) =>
        LET text == Last(messages).content[1].val
            rid == IF lastCall.resp.hdr = Absent THEN "unknown" ELSE lastCall.resp.hdr
        IN  /\ Contains(text, "X")
            /\ Contains(text, "Y")
            /\ Contains(text, rid)
            /\ Last(messages).request_id = rid
            /\ ~Contains(text, "abc")

C6_Witness ==
    /\ AfterSubmit
    /\ C6_ErrorBody(lastCall.resp)
    /\ lastCall.resp.hdr = "req-1"
    /\ Contains(Last(messages).content[1].val, "req-1")

\* C7: a request is only sent when a connected handle exists, and it is
\* authorized with that handle's token.
C7_OnlyConnectedHandleAuthorizes ==
    lastCall.resp # NoResponse =>
        /\ lastCall.connected
        /\ HasConnection(CONN)
        /\ lastCall.auth = CONN.token

C9_SummaryFailureHarmless ==
    \A i \in 1..Len(calls) :
        LET c == calls[i]
        IN  (c.primary.ok /\ c.primary.rows >= 1 /\ c.primary.rows <= SUMMARY_ROW_LIMIT) =>
                /\ c.asked = << c.sql, SummaryQuery(c.sql) >>
                /\ {"data tab", "chart tab"} \subseteq c.shown
                /\ ~c.raised

\* C10: for a result of 0 rows display_sql_query reports "Query returned no
\* data", asks no summary query and renders no tab; when the primary query
\* fails it shows the error, asks no summary query and raises nothing.
C10_EmptyOrFailedResult ==
    \A i \in 1..Len(calls) :
        LET c == calls[i]
        IN  /\ (c.primary.ok /\ c.primary.rows = 0) =>
                /\ "Query returned no data" \in c.shown
                /\ c.asked = << c.sql >>
                /\ c.shown \cap {"summary", "data tab", "chart tab"} = {}
                /\ ~c.raised
            /\ (~c.primary.ok /\ c.asked # << >>) =>
                /\ "error: could not execute" \in c.shown
                /\ c.asked = << c.sql >>
                /\ c.shown \cap {"summary", "data tab", "chart tab"} = {}
                /\ ~c.raised

C10_Witness ==
    \E i \in 1..Len(calls) :
        /\ calls[i].primary = Table(0)
        /\ "Query returned no data" \in calls[i].shown

\* C11: whenever init_connection_params runs with an input box value
\* present for a field, the session value of that field after the call (and
\* after the run's sidebar) is that input value, whatever the environment
\* and the secrets store hold.
C11_InputPrecedence ==
    /\ [](\A f \in Fields :
            input[f] # Absent =>
                init_connection_params(snowflake, input, config)[f] = input[f])
    /\ [][pc = "init" =>
             \A f \in Fields : input[f] # Absent => snowflake'[f] = input[f]]_vars

C11_Witness ==
    /\ pc = "first"
    /\ config.docker
    /\ config.env["token"] = "env"
    /\ input["token"] = ""
    /\ snowflake["token"] = ""

\* C12: no step (a run of init_connection_params, an input callback, a
\* Connect click) replaces a non-empty session value of a field by an empty
\* value or by the field's placeholder.
C12_NeverEmptied ==
    [][\A f \in Fields :
          snowflake[f] \notin {Absent, ""} =>
              snowflake'[f] \notin {"", Placeholder(f)}]_vars

\* C13: init_connection_params applied to its own result, with the same
\* input boxes, environment and secrets, returns that result (all seven
\* fields); and the resolution of the next run, with the boxes as the
\* sidebar has registered them, returns the values the run ended with.
C13_Idempotent ==
    /\ [](LET once == init_connection_params(snowflake, input, config)
          IN  /\ DOMAIN once = SessionFields
              /\ init_connection_params(once, input, config) = once)
    /\ [][pc = "init" =>
             init_connection_params(snowflake', input', config) = snowflake']_vars

C13_Witness ==
    /\ pc = "first"
    /\ event.kind = "connect"
    /\ snowflake["account"] = "env"
    /\ snowflake["token"] = "secret"
    /\ snowflake["authenticator"] = "snowflake"

\* C14: a run started by the Connect button in which the token, the
\* account or the user is empty (after the boxes are copied) reports the
\* first missing field, attempts no connection and leaves CONN and the
\* query session as they were; CONN only ever changes in a Connect run
\* with all three fields non-empty.
C14_MissingCredential ==
    /\ [][(pc = "init" /\ event.kind = "connect") =>
             LET missing(f) == snowflake'[f] = ""
             IN  /\ missing("token") => connect_result' = "error: token"
                 /\ (~missing("token") /\ missing("account")) =>
                        connect_result' = "error: account"
                 /\ (~missing("token") /\ ~missing("account") /\ missing("user")) =>
                        connect_result' = "error: user"
                 /\ (missing("token") \/ missing("account") \/ missing("user")) =>
                        CONN' = CONN /\ session' = session
                 /\ (~missing("token") /\ ~missing("account") /\ ~missing("user")) =>
                        connect_result' \in ConnectOutcomes]_vars
    /\ [][(CONN' # CONN \/ session' # session) =>
             /\ pc = "init" /\ event.kind = "connect"
             /\ \A f \in {"token", "account", "user"} : snowflake'[f] # ""]_vars

C14_Witness ==
    /\ pc = "first"
    /\ connect_result = "error: token"
    /\ snowflake["account"] # ""
    /\ snowflake["user"] # ""
    /\ CONN = Handle(SESSION_TOKEN)
    /\ session

C14_WitnessUser ==
    /\ pc = "first"
    /\ connect_result = "error: user"
    /\ CONN = NoConn

\* C15: the first-question step of main, taken with an empty conversation
\* and no connection, makes the conversation the single welcome message
\* (analyst, request_id "welcome") and sends no analyst request; taken with
\* a non-empty conversation it adds no welcome message; a conversation
\* never holds more than one welcome message, and only as its first one.
C15_WelcomeOnce ==
    /\ [][(pc = "first" /\ Len(messages) = 0 /\ ~HasConnection(CONN)) =>
             /\ messages' = << WelcomeMessage >>
             /\ IsWelcome(messages'[1])
             /\ pc' = "display"
             /\ lastCall'.resp = NoResponse]_vars
    /\ [][(pc = "first" /\ Len(messages) > 0) =>
             \A i \in 1..Len(messages') :
                 IsWelcome(messages'[i]) => (i <= Len(messages) /\ messages[i] = messages'[i])]_vars
    /\ [](\A i \in 1..Len(messages) : IsWelcome(messages[i]) => i = 1)

C15_Witness ==
    /\ pc = "display"
    /\ ~HasConnection(CONN)
    /\ Len(messages) = 3
    /\ messages[1] = WelcomeMessage
    /\ event.kind = "rerun"

\* C16: every step that does not call reset_session_state keeps each
\* message of the conversation unchanged at its index: the conversation
\* after the step starts with the conversation before it.
C16_AppendOnly ==
    [][~C3_ResetStep =>
          /\ Len(messages') >= Len(messages)
          /\ SubSeq(messages', 1, Len(messages)) = messages]_vars

C16_Witness ==
    /\ pc = "wait"
    /\ Len(messages) = 4
    /\ messages[1] = UserMessage(TYPED_QUESTION)
    /\ messages[2].role = "analyst"
    /\ messages[3] = UserMessage(SUGGESTION)
    /\ displayed = 4

\* C17: the flag is raised only by a failed submission, and no submission
\* is made while it is raised; it stays raised until handle_error_notifications
\* runs, which happens in the run restarted by that submission (the flag is
\* never raised while the script waits for an event); that run shows exactly
\* one toast and clears the flag, and a run of handle_error_notifications
\* with the flag cleared shows no toast.  So every failed submission is
\* answered by exactly one toast, in the next run of
\* handle_error_notifications.
C17_OneShotToast ==
    /\ [][(~fire_API_error_notify /\ fire_API_error_notify') =>
             SubmitStep /\ Fails(lastCall'.resp)]_vars
    /\ [][SubmitStep =>
             /\ ~fire_API_error_notify
             /\ toasts = 0
             /\ toasts' = 0
             /\ fire_API_error_notify' = Fails(lastCall'.resp)]_vars
    /\ [][(fire_API_error_notify /\ pc # "notify") =>
             fire_API_error_notify' /\ toasts' = 0]_vars
    /\ [](fire_API_error_notify => (event.kind = "rerun" /\ pc # "wait"))
    /\ [][pc = "notify" =>
             /\ toasts' = (IF fire_API_error_notify THEN 1 ELSE 0)
             /\ ~fire_API_error_notify']_vars

C17_Witness ==
    /\ pc = "wait"
    /\ toasts = 1
    /\ ~fire_API_error_notify
    /\ IsErrorMessage(Last(messages))
    /\ raised = "none"

\* C18: no query text is executed against the warehouse twice; every
\* execution is in the cache under its text with its outcome; a call of
\* get_query_exec_result made by display_sql_query returns the outcome of
\* the one execution of its text; and no step (reset, model change and
\* reconnect included) removes or changes an entry of the cache.
C18_CachedByQueryText ==
    /\ [](\A i, j \in 1..Len(executions) :
            executions[i].query = executions[j].query => i = j)
    /\ [](\A i \in 1..Len(executions) :
            /\ executions[i].query \in DOMAIN cache
            /\ cache[executions[i].query] = executions[i].result)
    /\ [](\A k \in 1..Len(calls) :
            calls[k].asked # << >> =>
                \E i \in 1..Len(executions) :
                    executions[i] = [query |-> calls[k].sql, result |-> calls[k].primary])
    /\ [][\A q \in DOMAIN cache : q \in DOMAIN cache' /\ cache'[q] = cache[q]]_vars

\* the first rendering of an answer finds its statement in the cache: it
\* was executed for an earlier conversation, before a reset
C18_Witness ==
    /\ pc = "inputs"
    /\ event.kind = "rerun"
    /\ Len(messages) = 2
    /\ session
    /\ Len(calls) = 1
    /\ calls[1].asked # << >>
    /\ calls[1].ran = << >>
    /\ executions # << >>

\* C19: the step of a model change and the step of the Clear button have
\* the same effect: the conversation is empty, no suggestion is pending,
\* just_reset is set, CONN and the query session are kept; and both runs
\* arrive at the first-question step of main in that condition.
C19_ModelChangeResets ==
    /\ [][((pc = "wait" /\ event'.kind = "model") \/ (pc = "init" /\ event.kind = "clear")) =>
             /\ messages' = << >>
             /\ active_suggestion' = NoneVal
             /\ just_reset'
             /\ CONN' = CONN
             /\ session' = session]_vars
    /\ []((pc = "first" /\ event.kind \in {"model", "clear"}) =>
             /\ messages = << >>
             /\ active_suggestion = NoneVal
             /\ just_reset)

C19_Witness ==
    /\ pc = "first"
    /\ event.kind = "model"
    /\ selected_semantic_model_path # 1
    /\ CONN = Handle(SESSION_TOKEN)
    /\ session
    /\ messages = << >>
    /\ just_reset
    /\ cache # << >>

\* C20: process_user_input, called with any of the three kinds of
\* question and any answer of the analyst endpoint, returns the conversation
\* it was given followed by the user message of that question and one analyst
\* message; every submission of a run extends the conversation in that way;
\* and in every state each user message of the conversation is directly
\* followed by an analyst message.
C20_UserThenAnalyst ==
    /\ [](pc \in {"first", "inputs"} =>
            \A prompt \in Prompts, resp \in Responses :
                LET p == process_user_input(messages, fire_API_error_notify, prompt, resp)
                    n == Len(messages)
                IN  /\ Len(p.messages) = n + 2
                    /\ p.messages = messages \o << UserMessage(prompt), p.messages[n + 2] >>
                    /\ p.messages[n + 2].role = "analyst"
                    /\ p.raised = "none")
    /\ [][SubmitStep =>
             \E prompt \in Prompts :
                 /\ messages' = messages \o << UserMessage(prompt), Last(messages') >>
                 /\ Last(messages').role = "analyst"]_vars
    /\ [](\A i \in 1..Len(messages) :
            messages[i].role = "user" =>
                (i < Len(messages) /\ messages[i + 1].role = "analyst"))

C20_Witness ==
    /\ AfterSubmit
    /\ lastCall.resp.exc = "timeout"
    /\ Len(messages) = 4
    /\ messages[3] = UserMessage(SUGGESTION)
    /\ messages[4].role = "analyst"

\* C21: when a run has ended and the script waits for the next event, the
\* connector handle CONN is present exactly if the query session is.
C21_HandleIffSession ==
    pc = "wait" => (CONN.exists <=> session)

====
